---------------------------- MODULE Spec2Model ----------------------------
(***************************************************************************)
(* CivicPulse: the report submission / geocoding / vote / comment pipeline *)
(* of the repository's front-end variants, and the complaint routes of its *)
(* backend.                                                                *)
(*                                                                         *)
(* The repository holds several near-duplicate React components.  Each is  *)
(* one value of `variant`:                                                 *)
(*   "App"          src/civic-pulse/src/App.js:30   (lat,lng text box)     *)
(*   "InitialCode"  src/civic-pulse/src/App.js:421  (one comment buffer)   *)
(*   "SampleRun000" src/unnamed/part_000:96         (address geocoding)    *)
(*   "App002"       src/unnamed/part_002:30         (photo required)       *)
(*   "Reporter"     src/unnamed/part_003:22         (PublicIssueReporter)  *)
(*   "SampleRun003" src/unnamed/part_003:179        (lat / lng fields)     *)
(*   "AppLocName"   src/src/App.js:30               (location by name)     *)
(*   "AppForm"      src/src/App.js:422              (form object, GPS)     *)
(*   "SampleRunBtn" src/src/components/ui/button.js:707 (blur preview)     *)
(*   "Backend"      src/routes/adminRoutes.js:6     (models/Complaints.js) *)
(*   "Backend001"   src/unnamed/part_001:17         (schema of part_001)   *)
(*   "ComplaintList" src/civic-pulse/src/App.js:353 (list from backend)    *)
(*                                                                         *)
(* Text is a sequence of one-character strings.  Numbers are integers      *)
(* (the character set has no decimal point); NaN is the value NaN below.   *)
(* null is 0 for an opaque handle (photo, audio) and <<>> for a position.  *)
(***************************************************************************)
EXTENDS Integers, Sequences, FiniteSets, TLC

VARIABLES
  variant,        \* which component is mounted
  now,            \* Date.now(), in milliseconds
  draft,          \* the component's form state (its useState cells)
  commentTexts,   \* comment input buffers, keyed by report id
  reports,        \* the in-memory collection (reports / complaints state)
  mapCenter,      \* mapCenter state of the variants that hold one
  previewCoords,  \* preview marker of SampleRunBtn
  searchResults,  \* candidate list of AppForm
  pending,        \* asynchronous calls in flight, each with its closure
  recording,      \* recording flag
  recorder,       \* mediaRecorderRef.current: <<>> or <<the recorder>>
  alertMsg,       \* what the last handler surfaced to the user ("none" if nothing)
  db,             \* persisted complaint documents (Backend)
  res,            \* the response to the last request of the backend
  upvoteCalls,    \* history: upvote(id) calls on a present id so far, per id
  commentCalls,   \* history: addComment(id) calls so far, per id
  generation,     \* history: successful submissions so far; each reset the form
  rejectedAt,     \* history: `generation` when a submission was last refused
                  \* for want of a photo (App002, SampleRun003); -1 before any
  edits           \* history: inputs to the form so far (bounded by MaxEdits)

vars == <<variant, now, draft, commentTexts, reports, mapCenter, previewCoords,
          searchResults, pending, recording, recorder, alertMsg, db, res,
          upvoteCalls, commentCalls, generation, rejectedAt, edits>>

\* Every variable not named in `changed` keeps its value.
Frame(changed) ==
  /\ IF "variant" \in changed THEN TRUE ELSE variant' = variant
  /\ IF "now" \in changed THEN TRUE ELSE now' = now
  /\ IF "draft" \in changed THEN TRUE ELSE draft' = draft
  /\ IF "commentTexts" \in changed THEN TRUE ELSE commentTexts' = commentTexts
  /\ IF "reports" \in changed THEN TRUE ELSE reports' = reports
  /\ IF "mapCenter" \in changed THEN TRUE ELSE mapCenter' = mapCenter
  /\ IF "previewCoords" \in changed THEN TRUE ELSE previewCoords' = previewCoords
  /\ IF "searchResults" \in changed THEN TRUE ELSE searchResults' = searchResults
  /\ IF "pending" \in changed THEN TRUE ELSE pending' = pending
  /\ IF "recording" \in changed THEN TRUE ELSE recording' = recording
  /\ IF "recorder" \in changed THEN TRUE ELSE recorder' = recorder
  /\ IF "alertMsg" \in changed THEN TRUE ELSE alertMsg' = alertMsg
  /\ IF "db" \in changed THEN TRUE ELSE db' = db
  /\ IF "res" \in changed THEN TRUE ELSE res' = res
  /\ IF "upvoteCalls" \in changed THEN TRUE ELSE upvoteCalls' = upvoteCalls
  /\ IF "commentCalls" \in changed THEN TRUE ELSE commentCalls' = commentCalls
  /\ IF "generation" \in changed THEN TRUE ELSE generation' = generation
  /\ IF "rejectedAt" \in changed THEN TRUE ELSE rejectedAt' = rejectedAt
  /\ IF "edits" \in changed THEN TRUE ELSE edits' = edits

---------------------------------------------------------------------------
(* Bounds of the check *)

MaxLen == 4        \* longest typed text drawn for the parsing specification
MaxReports == 2    \* longest collection
MaxClock == 2      \* last clock value
MaxVotes == 2      \* upvote calls per report id
MaxComments == 2   \* addComment calls per report id
MaxPending == 2    \* asynchronous calls in flight
MaxEdits == 4      \* form input events per behaviour
MaxDocs == 2       \* persisted complaints

---------------------------------------------------------------------------
(* Text and number conversions of the JavaScript runtime *)

Digits == {"0", "1", "2", "7", "9"}
WhiteSpace == {" "}
Chars == Digits \cup WhiteSpace \cup {",", "-", "a"}

NaN == -999999

isNaN(x) == x = NaN

DigitVal(c) ==
  CASE c = "0" -> 0 [] c = "1" -> 1 [] c = "2" -> 2 [] c = "7" -> 7 [] c = "9" -> 9

RECURSIVE DigitsValue(_)
DigitsValue(s) ==
  IF s = <<>> THEN 0
  ELSE DigitsValue(SubSeq(s, 1, Len(s) - 1)) * 10 + DigitVal(s[Len(s)])

AllDigits(s) == \A i \in 1..Len(s) : s[i] \in Digits

RECURSIVE TrimStart(_)
TrimStart(s) ==
  IF s # <<>> /\ Head(s) \in WhiteSpace THEN TrimStart(Tail(s)) ELSE s

RECURSIVE TrimEnd(_)
TrimEnd(s) ==
  IF s # <<>> /\ s[Len(s)] \in WhiteSpace
    THEN TrimEnd(SubSeq(s, 1, Len(s) - 1))
    ELSE s

\* String.prototype.trim
trim(s) == TrimEnd(TrimStart(s))

\* String.prototype.split(","): the pieces between the commas, at least one.
RECURSIVE split(_)
split(s) ==
  IF \A i \in 1..Len(s) : s[i] # ","
    THEN <<s>>
    ELSE LET k == CHOOSE i \in 1..Len(s) :
                    s[i] = "," /\ \A j \in 1..(i - 1) : s[j] # ","
         IN  <<SubSeq(s, 1, k - 1)>> \o split(SubSeq(s, k + 1, Len(s)))

\* String.prototype.includes(",")
includes(s) == \E i \in 1..Len(s) : s[i] = ","

\* Number(text): the whole trimmed text must be a numeral; blank text is 0.
Number(s) ==
  LET t == trim(s)
      neg == t # <<>> /\ Head(t) = "-"
      body == IF neg THEN Tail(t) ELSE t
  IN  IF t = <<>> THEN 0
      ELSE IF body # <<>> /\ AllDigits(body)
        THEN (IF neg THEN 0 - DigitsValue(body) ELSE DigitsValue(body))
        ELSE NaN

\* The longest prefix of s made of digits.
RECURSIVE DigitPrefix(_)
DigitPrefix(s) ==
  IF s # <<>> /\ Head(s) \in Digits THEN <<Head(s)>> \o DigitPrefix(Tail(s)) ELSE <<>>

\* parseFloat(text): leading white space is skipped, the longest numeral
\* prefix is read and the rest ignored; no numeral prefix is NaN.
parseFloat(s) ==
  LET t == TrimStart(s)
      neg == t # <<>> /\ Head(t) = "-"
      body == IF neg THEN Tail(t) ELSE t
      p == DigitPrefix(body)
  IN  IF p = <<>> THEN NaN
      ELSE IF neg THEN 0 - DigitsValue(p) ELSE DigitsValue(p)

\* Array destructuring [lat, lng] = a: a missing element is undefined, and
\* isNaN(undefined) is true, so undefined is read as NaN here.
At(a, i) == IF i <= Len(a) THEN a[i] ELSE NaN

\* Array.prototype.map over a sequence of texts
MapNumber(a) == [i \in 1..Len(a) |-> Number(a[i])]
MapParseFloatTrim(a) == [i \in 1..Len(a) |-> parseFloat(trim(a[i]))]

\* String(n) of an integer, as a template literal `${n}` writes it
RECURSIVE ToText(_)
ToText(n) ==
  IF n < 0 THEN <<"-">> \o ToText(0 - n)
  ELSE IF n < 10 THEN <<(<<"0", "1", "2", "3", "4", "5", "6", "7", "8", "9">>)[n + 1]>>
  ELSE ToText(n \div 10) \o ToText(n % 10)

\* All texts over Chars of length at most n
RECURSIVE TextsUpTo(_)
TextsUpTo(n) ==
  IF n = 0 THEN {<<>>}
  ELSE LET shorter == TextsUpTo(n - 1)
       IN  shorter \cup {Append(t, c) : t \in {u \in shorter : Len(u) = n - 1}, c \in Chars}


---------------------------------------------------------------------------
(* Fixed data of the components *)

\* The first two of the five issue types and of the three authorities.
ISSUE_TYPES == <<"Pothole", "Garbage">>
MOCK_AUTHORITIES == <<"muni-1", "roads-1">>
AUTHORITIES == <<"muni", "roads">>

Range(f) == {f[i] : i \in DOMAIN f}

\* useState({ lat: 11.0168, lng: 76.9558 }), in whole degrees
DefaultLocation == <<11, 77>>
\* useState([20, 0]), useState([20, 77])
\* and the fixed <MapContainer center={...}> of AppForm and Reporter
DefaultMapCenter(v) ==
  IF v = "SampleRunBtn" THEN <<20, 77>>
  ELSE IF v = "AppForm" THEN <<21, 79>>
  ELSE IF v = "Reporter" THEN <<11, 77>>
  ELSE <<20, 0>>

\* Inputs of the user and of the outside world
Clicks == {<<12, 77>>}                        \* map clicks (e.latlng)
Files == {1}                                  \* files picked; also their object URL
AddressTexts == {<<>>, <<" ">>, <<"a">>}      \* typed addresses
LocationInputs == {<<"9", "1", ",", "7">>, <<"a">>}   \* typed "lat,lng" texts
CommentInputs == {<<" ">>, <<" ", "a", " ">>}     \* typed comments
GeocodeResults ==                             \* answers of the geocoding service
  { <<>>,
    <<[lat |-> <<"1", "2">>, lon |-> <<"7", "7">>, display_name |-> <<"a", "a">>]>>,
    <<[lat |-> <<"2", "0">>, lon |-> <<"-", "7">>, display_name |-> <<"a", " ">>],
      [lat |-> <<"1", "2">>, lon |-> <<"7", "7">>, display_name |-> <<"a", "a">>]>> }
GpsPositions == {<<11, 77>>}                  \* fixes of the geolocation service

Ids == 1..MaxClock

\* { ...obj, [key]: value } on an object keyed by report id
Put(obj, key, value) ==
  [k \in (DOMAIN obj) \cup {key} |-> IF k = key THEN value ELSE obj[k]]

\* obj[key] || ""
GetOrEmpty(obj, key) == IF key \in DOMAIN obj THEN obj[key] ELSE <<>>

\* res.status(status).json({ message, ...body }) to `caller` on `route`;
\* status 0 when no request has been answered yet
Reply(route, caller, status, message, body) ==
  [route |-> route, caller |-> caller, status |-> status, message |-> message,
   body |-> body]

RemoveAt(s, k) == SubSeq(s, 1, k - 1) \o SubSeq(s, k + 1, Len(s))

\* `${location.lat},${location.lng}`
CoordText(pos) == ToText(pos[1]) \o <<",">> \o ToText(pos[2])

---------------------------------------------------------------------------
(* Initial state: the component as mounted *)

InitDraft(v) ==
  CASE v = "App" ->
         [issueType |-> ISSUE_TYPES[1], authority |-> MOCK_AUTHORITIES[1],
          location |-> DefaultLocation, locationInput |-> <<>>,
          photo |-> 0, photoPreview |-> 0, audioBlob |-> 0]
    [] v = "InitialCode" ->
         [issueType |-> ISSUE_TYPES[1], authority |-> MOCK_AUTHORITIES[1],
          location |-> DefaultLocation,
          photo |-> 0, photoPreview |-> 0, audioBlob |-> 0, commentText |-> <<>>]
    [] v = "SampleRun000" ->
         [issueType |-> ISSUE_TYPES[1], authority |-> MOCK_AUTHORITIES[1],
          address |-> <<>>, photo |-> 0, photoPreview |-> 0, audioBlob |-> 0]
    [] v = "SampleRunBtn" ->
         [issueType |-> ISSUE_TYPES[1], authority |-> AUTHORITIES[1],
          address |-> <<>>, photo |-> 0, photoPreview |-> 0, audioBlob |-> 0]
    [] v = "App002" ->
         [issueType |-> ISSUE_TYPES[1], authority |-> MOCK_AUTHORITIES[1],
          location |-> DefaultLocation, locationInput |-> CoordText(DefaultLocation),
          photo |-> 0, photoPreview |-> 0]
    [] v = "SampleRun003" ->
         [lat |-> <<>>, lng |-> <<>>, issueType |-> ISSUE_TYPES[1],
          photoFile |-> 0, photoPreview |-> 0]
    [] v = "AppLocName" ->
         [issueType |-> ISSUE_TYPES[1], authority |-> MOCK_AUTHORITIES[1],
          location |-> DefaultLocation, locationName |-> <<>>,
          photo |-> 0, photoPreview |-> 0]
    [] v = "Reporter" ->
         [location |-> <<>>, issue |-> "", urgency |-> "Low", status |-> "New",
          file |-> 0]
    [] v = "AppForm" ->
         [title |-> <<>>, description |-> <<>>, urgency |-> "Low",
          location |-> <<>>, coords |-> <<>>, images |-> <<>>, audio |-> 0]

\* Everything but the form state of a freshly mounted component
InitRest ==
  /\ now = 1
  /\ commentTexts = <<>>
  /\ reports = <<>>
  /\ mapCenter = DefaultMapCenter(variant)
  /\ previewCoords = <<>>
  /\ searchResults = <<>>
  /\ pending = <<>>
  /\ recording = FALSE
  /\ recorder = <<>>
  /\ alertMsg = "none"
  /\ db = <<>>
  /\ res = Reply("none", "none", 0, "", <<>>)
  /\ upvoteCalls = [i \in Ids |-> 0]
  /\ commentCalls = [i \in Ids |-> 0]
  /\ generation = 0
  /\ rejectedAt = -1
  /\ edits = 0

InitOf(variants) ==
  /\ variant \in variants
  /\ draft = InitDraft(variant)
  /\ InitRest

\* The clock advances by a millisecond.
Tick ==
  /\ now < MaxClock
  /\ now' = now + 1
  /\ Frame({"now"})

\* The center the map is rendered with: <MapContainer center={...}>
MapFocus ==
  IF variant \in {"App", "InitialCode", "App002", "AppLocName"} THEN draft.location
  ELSE IF variant = "SampleRun003"
    THEN (IF Len(reports) > 0 THEN <<reports[1].lat, reports[1].lng>> ELSE <<20, 0>>)
  ELSE mapCenter

---------------------------------------------------------------------------
(* Form inputs shared by the components *)

HasField(f) == f \in DOMAIN draft

\* <select onChange={(e) => setIssueType(e.target.value)}>
setIssueType(t) ==
  /\ HasField("issueType")
  /\ edits < MaxEdits
  /\ t # draft.issueType
  /\ draft' = [draft EXCEPT !.issueType = t]
  /\ edits' = edits + 1
  /\ alertMsg' = "none"
  /\ Frame({"draft", "edits", "alertMsg"})

\* <select onChange={(e) => setAuthority(e.target.value)}>
setAuthority(a) ==
  /\ HasField("authority")
  /\ edits < MaxEdits
  /\ a # draft.authority
  /\ draft' = [draft EXCEPT !.authority = a]
  /\ edits' = edits + 1
  /\ alertMsg' = "none"
  /\ Frame({"draft", "edits", "alertMsg"})

\* handlePhoto / handlePhotoChange: the file and its object URL
handlePhoto(file) ==
  /\ HasField("photo")
  /\ edits < MaxEdits
  /\ draft.photoPreview # file
  /\ draft' = [draft EXCEPT !.photo = file, !.photoPreview = file]
  /\ edits' = edits + 1
  /\ alertMsg' = "none"
  /\ Frame({"draft", "edits", "alertMsg"})

\* setLocation(pos); in App002 the effect on [location] then rewrites the
\* text box: setLocationInput(`${location.lat},${location.lng}`)
SetLocation(d, pos) ==
  IF variant = "App002"
    THEN [d EXCEPT !.location = pos, !.locationInput = CoordText(pos)]
    ELSE [d EXCEPT !.location = pos]

\* <LocationPicker onSelect={(latlng) => setLocation(latlng)} />
LocationPicker(latlng) ==
  /\ variant \in {"App", "InitialCode", "App002", "AppLocName"}
  /\ edits < MaxEdits
  /\ draft.location # latlng
  /\ draft' = SetLocation(draft, latlng)
  /\ edits' = edits + 1
  /\ alertMsg' = "none"
  /\ Frame({"draft", "edits", "alertMsg"})

\* onChange={(e) => setAddress(e.target.value)}
setAddress(text) ==
  /\ HasField("address")
  /\ edits < MaxEdits
  /\ text # draft.address
  /\ draft' = [draft EXCEPT !.address = text]
  /\ edits' = edits + 1
  /\ alertMsg' = "none"
  /\ Frame({"draft", "edits", "alertMsg"})

---------------------------------------------------------------------------
(* App and InitialCode: src/civic-pulse/src/App.js *)

\* audioBlob ? URL.createObjectURL(audioBlob) : null
AudioUrl(blob) == IF blob # 0 THEN blob ELSE 0

\* The report built without reading the authority select.
NewReport_App_NoAuthority(d, t) ==
  [id |-> t, type |-> d.issueType, authority |-> MOCK_AUTHORITIES[1],
   lat |-> d.location[1], lng |-> d.location[2],
   photo |-> d.photoPreview, audio |-> AudioUrl(d.audioBlob),
   votes |-> 0, comments |-> <<>>]

NewReport_App(d, t) ==
  [id |-> t, type |-> d.issueType, authority |-> d.authority,
   lat |-> d.location[1], lng |-> d.location[2],
   photo |-> d.photoPreview, audio |-> AudioUrl(d.audioBlob),
   votes |-> 0, comments |-> <<>>]

submitReport_App ==
  /\ variant = "App"
  /\ Len(reports) < MaxReports
  /\ LET newReport == NewReport_App(draft, now)
     IN  /\ reports' = <<newReport>> \o reports
         /\ draft' = [draft EXCEPT !.photo = 0, !.photoPreview = 0, !.audioBlob = 0]
         /\ commentTexts' = Put(commentTexts, newReport.id, <<>>)
  /\ alertMsg' = "none"
  /\ generation' = generation + 1
  /\ Frame({"reports", "draft", "commentTexts", "alertMsg", "generation"})

submitReport_InitialCode ==
  /\ variant = "InitialCode"
  /\ Len(reports) < MaxReports
  /\ reports' = <<NewReport_App(draft, now)>> \o reports
  /\ draft' = [draft EXCEPT !.photo = 0, !.photoPreview = 0, !.audioBlob = 0,
                            !.commentText = <<>>]
  /\ alertMsg' = "none"
  /\ generation' = generation + 1
  /\ Frame({"reports", "draft", "alertMsg", "generation"})

---------------------------------------------------------------------------
(* Direct entry of coordinates: App, App002 and SampleRun003 *)

\* handleLocationChange: setLocationInput(e.target.value)
handleLocationChange(text) ==
  /\ variant \in {"App", "App002"}
  /\ edits < MaxEdits
  /\ text # draft.locationInput
  /\ draft' = [draft EXCEPT !.locationInput = text]
  /\ edits' = edits + 1
  /\ alertMsg' = "none"
  /\ Frame({"draft", "edits", "alertMsg"})

\* const [lat, lng] = locationInput.split(",").map(Number)
ParsedInput(text) ==
  LET a == MapNumber(split(text)) IN <<At(a, 1), At(a, 2)>>

\* if (!isNaN(lat) && !isNaN(lng))
AcceptsInput(text) ==
  ~isNaN(ParsedInput(text)[1]) /\ ~isNaN(ParsedInput(text)[2])

setLocationFromInput ==
  /\ variant \in {"App", "App002"}
  /\ IF AcceptsInput(draft.locationInput)
       THEN /\ draft' = SetLocation(draft, ParsedInput(draft.locationInput))
            /\ alertMsg' = "none"
            /\ Frame({"draft", "alertMsg"})
       ELSE /\ alertMsg' = "Enter valid coordinates: lat,lng"
            /\ Frame({"alertMsg"})

\* The check that lets a form without a photo through.
Validate_App002_AnyPhoto(d) ==
  IF d.photoPreview = 0 THEN "none" ELSE "none"

Validate_App002(d) ==
  IF d.photoPreview = 0 THEN "Please upload a photo for the report." ELSE "none"

NewReport_App002(d, t) ==
  [id |-> t, type |-> d.issueType, authority |-> d.authority,
   lat |-> d.location[1], lng |-> d.location[2], photo |-> d.photoPreview]

submitReport_App002 ==
  /\ variant = "App002"
  /\ IF Validate_App002(draft) # "none"
       THEN /\ alertMsg' = Validate_App002(draft)
            /\ rejectedAt' = generation
            /\ Frame({"alertMsg", "rejectedAt"})
       ELSE /\ Len(reports) < MaxReports
            /\ reports' = <<NewReport_App002(draft, now)>> \o reports
            /\ draft' = [draft EXCEPT !.photo = 0, !.photoPreview = 0]
            /\ alertMsg' = "none"
            /\ generation' = generation + 1
            /\ Frame({"reports", "draft", "alertMsg", "generation"})

\* SampleRun003.addReport: the check on the two number fields
ValidNumbers_SampleRun003(d) ==
  LET latitude == parseFloat(d.lat)
      longitude == parseFloat(d.lng)
  IN  ~(\/ isNaN(latitude) \/ isNaN(longitude)
        \/ latitude < -90 \/ latitude > 90
        \/ longitude < -180 \/ longitude > 180)

\* SampleRun003.addReport: the checks on the two number fields and the photo
Validate_SampleRun003(d) ==
  IF ~ValidNumbers_SampleRun003(d)
        THEN "Please enter valid latitude and longitude values."
      ELSE IF d.photoPreview = 0 THEN "Please upload an image for the complaint."
      ELSE "none"

NewReport_SampleRun003(d, t) ==
  [id |-> t, lat |-> parseFloat(d.lat), lng |-> parseFloat(d.lng),
   issueType |-> d.issueType, photoPreview |-> d.photoPreview]

addReport_SampleRun003 ==
  /\ variant = "SampleRun003"
  /\ IF Validate_SampleRun003(draft) # "none"
       THEN /\ alertMsg' = Validate_SampleRun003(draft)
            /\ rejectedAt' = IF draft.photoPreview = 0 /\ ValidNumbers_SampleRun003(draft)
                                THEN generation ELSE rejectedAt
            /\ Frame({"alertMsg", "rejectedAt"})
       ELSE /\ Len(reports) < MaxReports
            /\ reports' = <<NewReport_SampleRun003(draft, now)>> \o reports
            /\ draft' = [draft EXCEPT !.lat = <<>>, !.lng = <<>>,
                                      !.photoFile = 0, !.photoPreview = 0]
            /\ alertMsg' = "none"
            /\ generation' = generation + 1
            /\ Frame({"reports", "draft", "alertMsg", "generation"})

\* SampleRun003.handlePhotoChange: setPhotoFile(file), setPhotoPreview(url)
handlePhotoChange(file) ==
  /\ variant = "SampleRun003"
  /\ edits < MaxEdits
  /\ draft.photoPreview # file
  /\ draft' = [draft EXCEPT !.photoFile = file, !.photoPreview = file]
  /\ edits' = edits + 1
  /\ alertMsg' = "none"
  /\ Frame({"draft", "edits", "alertMsg"})

\* What is typed into the two number fields
LatTexts == {<<"9">>, <<"9", "1">>}
LngTexts == {<<"7">>}

\* onChange={(e) => setLat(e.target.value)}
setLat(text) ==
  /\ variant = "SampleRun003"
  /\ edits < MaxEdits
  /\ text # draft.lat
  /\ draft' = [draft EXCEPT !.lat = text]
  /\ edits' = edits + 1
  /\ alertMsg' = "none"
  /\ Frame({"draft", "edits", "alertMsg"})

\* onChange={(e) => setLng(e.target.value)}
setLng(text) ==
  /\ variant = "SampleRun003"
  /\ edits < MaxEdits
  /\ text # draft.lng
  /\ draft' = [draft EXCEPT !.lng = text]
  /\ edits' = edits + 1
  /\ alertMsg' = "none"
  /\ Frame({"draft", "edits", "alertMsg"})

\* The two components that refuse a submission without a photo
NextPhoto ==
  \/ Tick
  \/ \E f \in Files : handlePhoto(f)
  \/ \E c \in Clicks : LocationPicker(c)
  \/ \E t \in Range(ISSUE_TYPES) : setIssueType(t)
  \/ submitReport_App002
  \/ \E f \in Files : handlePhotoChange(f)
  \/ \E text \in LatTexts : setLat(text)
  \/ \E text \in LngTexts : setLng(text)
  \/ addReport_SampleRun003

SpecPhoto == InitOf({"App002", "SampleRun003"}) /\ [][NextPhoto]_vars

\* A numeral: an optional minus sign and one or more digits
IsNumeral(t) ==
  LET body == IF t # <<>> /\ Head(t) = "-" THEN Tail(t) ELSE t
  IN  body # <<>> /\ AllDigits(body)

\* What an <input type="number"> can hold: a numeral or nothing
NumberFieldTexts == {t \in TextsUpTo(MaxLen - 1) : t = <<>> \/ IsNumeral(t)}

\* The components with a text already typed into the coordinate inputs
InitParse ==
  /\ variant \in {"App", "App002", "SampleRun003"}
  /\ IF variant = "SampleRun003"
       THEN \E la \in NumberFieldTexts, lo \in NumberFieldTexts, ph \in {0} \cup Files :
              draft = [InitDraft(variant) EXCEPT !.lat = la, !.lng = lo,
                                                 !.photoFile = ph, !.photoPreview = ph]
       ELSE \E text \in TextsUpTo(MaxLen) :
              draft = [InitDraft(variant) EXCEPT !.locationInput = text]
  /\ InitRest

NextParse ==
  \/ setLocationFromInput
  \/ addReport_SampleRun003

SpecParse == InitParse /\ [][NextParse]_vars

---------------------------------------------------------------------------
(* SampleRun000: src/unnamed/part_000, "sample run.js" *)

\* geocodeAddress: the first match, parsed, or null (<<>>)
geocodeAddress(data) ==
  IF Len(data) > 0
    THEN <<parseFloat(data[1].lat), parseFloat(data[1].lon)>>
    ELSE <<>>

\* A call in flight and the state its closure holds: `d` is the form state
\* and `seen` the collection the closure captured.  A handler that does not
\* read them after its await leaves them empty.
\* `generation` records how many submissions had succeeded when it started.
Call(op, d, seen) ==
  [op |-> op, draft |-> d, reports |-> seen, generation |-> generation]

NewReport_SampleRun000(d, coords, t) ==
  [id |-> t, issueType |-> d.issueType, authority |-> d.authority,
   address |-> d.address, lat |-> coords[1], lng |-> coords[2],
   photoPreview |-> d.photoPreview, audioUrl |-> AudioUrl(d.audioBlob),
   votes |-> 0, comments |-> <<>>]

\* The checks without the one for the photo.
Validate_SampleRun000_NoPhotoCheck(d) ==
  IF trim(d.address) = <<>> THEN "Please enter an address." ELSE "none"

\* The checks submitReport makes before its await: the alert, or "none"
Validate_SampleRun000(d) ==
  IF trim(d.address) = <<>> THEN "Please enter an address."
  ELSE IF d.photoPreview = 0 THEN "Please upload a photo."
  ELSE "none"

\* submitReport up to its await
submitReport_SampleRun000 ==
  /\ variant = "SampleRun000"
  /\ IF Validate_SampleRun000(draft) # "none"
       THEN /\ alertMsg' = Validate_SampleRun000(draft)
            /\ Frame({"alertMsg"})
       ELSE   /\ Len(pending) < MaxPending
              /\ pending' = Append(pending, Call("submitReport", draft, <<>>))
              /\ alertMsg' = "none"
              /\ Frame({"pending", "alertMsg"})

\* submitReport after its await: the service answered call i with `data`
geocoded_SampleRun000(i, data) ==
  /\ variant = "SampleRun000"
  /\ i \in 1..Len(pending)
  /\ pending[i].op = "submitReport"
  /\ pending' = RemoveAt(pending, i)
  /\ LET d == pending[i].draft
         coords == geocodeAddress(data)
     IN  IF coords = <<>>
           THEN /\ alertMsg' = "Address not found. Please enter a valid address."
                /\ Frame({"pending", "alertMsg"})
           ELSE /\ Len(reports) < MaxReports
                /\ reports' = <<NewReport_SampleRun000(d, coords, now)>> \o reports
                /\ mapCenter' = coords
                /\ draft' = [draft EXCEPT !.address = <<>>, !.photo = 0,
                                          !.photoPreview = 0, !.audioBlob = 0]
                /\ commentTexts' = Put(commentTexts, now, <<>>)
                /\ alertMsg' = "none"
                /\ generation' = generation + 1
                /\ Frame({"pending", "reports", "mapCenter", "draft",
                          "commentTexts", "alertMsg", "generation"})

\* The request fails: fetch rejects, nothing catches it, the handler ends.
geocodeRejected_SampleRun000(i) ==
  /\ variant = "SampleRun000"
  /\ i \in 1..Len(pending)
  /\ pending[i].op = "submitReport"
  /\ pending' = RemoveAt(pending, i)
  /\ alertMsg' = "none"
  /\ Frame({"pending", "alertMsg"})

---------------------------------------------------------------------------
(* AppLocName: src/src/App.js, the first App *)

LocationNames == {<<"a">>}

\* onChange={(e) => setLocationName(e.target.value)}
setLocationName(text) ==
  /\ variant = "AppLocName"
  /\ edits < MaxEdits
  /\ text # draft.locationName
  /\ draft' = [draft EXCEPT !.locationName = text]
  /\ edits' = edits + 1
  /\ alertMsg' = "none"
  /\ Frame({"draft", "edits", "alertMsg"})

\* setLocationFromName up to its await
setLocationFromName ==
  /\ variant = "AppLocName"
  /\ alertMsg' = "none"
  /\ IF draft.locationName = <<>>
       THEN Frame({"alertMsg"})
       ELSE /\ Len(pending) < MaxPending
            /\ pending' = Append(pending, Call("setLocationFromName", <<>>, <<>>))
            /\ Frame({"pending", "alertMsg"})

\* setLocationFromName after its await: the service answered call i
located_AppLocName(i, data) ==
  /\ variant = "AppLocName"
  /\ i \in 1..Len(pending)
  /\ pending[i].op = "setLocationFromName"
  /\ pending' = RemoveAt(pending, i)
  /\ IF Len(data) = 0
       THEN /\ alertMsg' = "Location not found!"
            /\ Frame({"pending", "alertMsg"})
       ELSE /\ draft' = [draft EXCEPT
                           !.location = <<parseFloat(data[1].lat), parseFloat(data[1].lon)>>]
            /\ alertMsg' = "none"
            /\ Frame({"pending", "draft", "alertMsg"})

\* the request throws: the catch block
locateFailed_AppLocName(i) ==
  /\ variant = "AppLocName"
  /\ i \in 1..Len(pending)
  /\ pending[i].op = "setLocationFromName"
  /\ pending' = RemoveAt(pending, i)
  /\ alertMsg' = "Error fetching location coordinates."
  /\ Frame({"pending", "alertMsg"})

Validate_AppLocName(d) ==
  IF d.photoPreview = 0 THEN "Please upload a photo for the report." ELSE "none"

NewReport_AppLocName(d, t) ==
  [id |-> t, type |-> d.issueType, authority |-> d.authority,
   lat |-> d.location[1], lng |-> d.location[2],
   photo |-> d.photoPreview, locationName |-> d.locationName]

submitReport_AppLocName ==
  /\ variant = "AppLocName"
  /\ IF Validate_AppLocName(draft) # "none"
       THEN /\ alertMsg' = Validate_AppLocName(draft)
            /\ Frame({"alertMsg"})
       ELSE /\ Len(reports) < MaxReports
            /\ reports' = <<NewReport_AppLocName(draft, now)>> \o reports
            /\ draft' = [draft EXCEPT !.photo = 0, !.photoPreview = 0,
                                      !.locationName = <<>>]
            /\ alertMsg' = "none"
            /\ generation' = generation + 1
            /\ Frame({"reports", "draft", "alertMsg", "generation"})

---------------------------------------------------------------------------
(* Reporter: PublicIssueReporter, src/unnamed/part_003 *)

ReporterLocations == {<<"a">>, <<"1", ",", "2">>, <<"a", ",", "7">>}
Issues == {"", "Garbage"}
Urgencies == {"Low", "High"}
Statuses == {"New", "Resolved"}

\* the onChange handlers of the five inputs
setField_Reporter(field, value) ==
  /\ variant = "Reporter"
  /\ edits < MaxEdits
  /\ value # draft[field]
  /\ draft' = [draft EXCEPT ![field] = value]
  /\ edits' = edits + 1
  /\ alertMsg' = "none"
  /\ Frame({"draft", "edits", "alertMsg"})

Validate_Reporter(d) ==
  IF d.location = <<>> \/ d.issue = ""
    THEN "Please enter location and select issue."
    ELSE "none"

\* Convert "lat,lng" string -> array; null (<<>>) without a comma
Coords_Reporter(location) ==
  IF includes(location) THEN MapParseFloatTrim(split(location)) ELSE <<>>

NewReport_Reporter(d, t) ==
  [id |-> t, location |-> d.location, coords |-> Coords_Reporter(d.location),
   issue |-> d.issue, urgency |-> d.urgency, status |-> d.status, file |-> d.file]

handleSubmit_Reporter ==
  /\ variant = "Reporter"
  /\ IF Validate_Reporter(draft) # "none"
       THEN /\ alertMsg' = Validate_Reporter(draft)
            /\ Frame({"alertMsg"})
       ELSE /\ Len(reports) < MaxReports
            /\ reports' = Append(reports, NewReport_Reporter(draft, now))
            /\ draft' = [draft EXCEPT !.location = <<>>, !.issue = "",
                                      !.urgency = "Low", !.status = "New", !.file = 0]
            /\ alertMsg' = "none"
            /\ generation' = generation + 1
            /\ Frame({"reports", "draft", "alertMsg", "generation"})

---------------------------------------------------------------------------
(* SampleRunBtn: src/src/components/ui/button.js, "sample run.js" *)

\* handleAddressBlur up to its await
handleAddressBlur ==
  /\ variant = "SampleRunBtn"
  /\ alertMsg' = "none"
  /\ IF trim(draft.address) # <<>>
       THEN /\ edits < MaxEdits
            /\ Len(pending) < MaxPending
            /\ pending' = Append(pending, Call("handleAddressBlur", <<>>, <<>>))
            /\ edits' = edits + 1
            /\ Frame({"pending", "edits", "alertMsg"})
       ELSE Frame({"alertMsg"})

\* handleAddressBlur after its await: the service answered call i
previewed_SampleRunBtn(i, data) ==
  /\ variant = "SampleRunBtn"
  /\ i \in 1..Len(pending)
  /\ pending[i].op = "handleAddressBlur"
  /\ pending' = RemoveAt(pending, i)
  /\ alertMsg' = "none"
  /\ IF geocodeAddress(data) # <<>>
       THEN /\ previewCoords' = geocodeAddress(data)
            /\ mapCenter' = geocodeAddress(data)
            /\ Frame({"pending", "alertMsg", "previewCoords", "mapCenter"})
       ELSE Frame({"pending", "alertMsg"})

\* The checks handleSubmit makes before its await: the alert, or "none"
Validate_SampleRunBtn(d) ==
  IF d.address = <<>> THEN "Please enter an address."
  ELSE IF d.photoPreview = 0 THEN "Please upload a photo."
  ELSE "none"

NewReport_SampleRunBtn(d, coords, t) ==
  [id |-> t, type |-> d.issueType, authority |-> d.authority,
   address |-> d.address, lat |-> coords[1], lng |-> coords[2],
   photo |-> d.photoPreview, audio |-> AudioUrl(d.audioBlob),
   votes |-> 0, comments |-> <<>>]

\* handleSubmit up to its await; the closure holds the form and `reports`
handleSubmit_SampleRunBtn ==
  /\ variant = "SampleRunBtn"
  /\ IF Validate_SampleRunBtn(draft) # "none"
       THEN /\ alertMsg' = Validate_SampleRunBtn(draft)
            /\ Frame({"alertMsg"})
       ELSE /\ Len(pending) < MaxPending
            /\ pending' = Append(pending, Call("handleSubmit", draft, reports))
            /\ alertMsg' = "none"
            /\ Frame({"pending", "alertMsg"})

\* handleSubmit after its await: setReports([newReport, ...reports]) with
\* the `reports` of the closure
geocoded_SampleRunBtn(i, data) ==
  /\ variant = "SampleRunBtn"
  /\ i \in 1..Len(pending)
  /\ pending[i].op = "handleSubmit"
  /\ pending' = RemoveAt(pending, i)
  /\ LET d == pending[i].draft
         coords == geocodeAddress(data)
     IN  IF coords = <<>>
           THEN /\ alertMsg' = "Could not find location. Try a more specific address."
                /\ Frame({"pending", "alertMsg"})
           ELSE /\ Len(pending[i].reports) < MaxReports
                /\ reports' = <<NewReport_SampleRunBtn(d, coords, now)>> \o pending[i].reports
                /\ mapCenter' = coords
                /\ previewCoords' = <<>>
                /\ draft' = [draft EXCEPT !.address = <<>>, !.photo = 0,
                                          !.photoPreview = 0, !.audioBlob = 0]
                /\ alertMsg' = "none"
                /\ generation' = generation + 1
                /\ Frame({"pending", "reports", "mapCenter", "previewCoords",
                          "draft", "alertMsg", "generation"})

\* The request of call i fails: fetch rejects, nothing catches it.
geocodeRejected_SampleRunBtn(i) ==
  /\ variant = "SampleRunBtn"
  /\ i \in 1..Len(pending)
  /\ pending[i].op \in {"handleSubmit", "handleAddressBlur"}
  /\ pending' = RemoveAt(pending, i)
  /\ alertMsg' = "none"
  /\ Frame({"pending", "alertMsg"})

---------------------------------------------------------------------------
(* AppForm: src/src/App.js, the second App *)

userEmail == "citizen"
CurrentLocation == <<"C", "u", "r", "r", "e", "n", "t", " ", "L", "o", "c", "a", "t", "i", "o", "n">>
PinnedLocation == <<"P", "i", "n", "n", "e", "d", " ", "L", "o", "c", "a", "t", "i", "o", "n">>

\* onChange={(e) => setForm({ ...form, [field]: e.target.value })}
setForm(field, value) ==
  /\ variant = "AppForm"
  /\ edits < MaxEdits
  /\ value # draft[field]
  /\ draft' = [draft EXCEPT ![field] = value]
  /\ edits' = edits + 1
  /\ alertMsg' = "none"
  /\ Frame({"draft", "edits", "alertMsg"})

\* <LocationSelector onSelect={(coords) => setForm({ ...form, coords, location: "Pinned Location" })} />
LocationSelector(coords) ==
  /\ variant = "AppForm"
  /\ edits < MaxEdits
  /\ draft' = [draft EXCEPT !.coords = coords, !.location = PinnedLocation]
  /\ draft' # draft
  /\ edits' = edits + 1
  /\ alertMsg' = "none"
  /\ Frame({"draft", "edits", "alertMsg"})

NewComplaint_AppForm(form, t) ==
  [title |-> form.title, description |-> form.description, urgency |-> form.urgency,
   location |-> form.location, coords |-> form.coords, images |-> form.images,
   audio |-> form.audio, id |-> t, status |-> "New", reportedBy |-> userEmail]

\* The form is emptied before the location is checked.
handleSubmit_AppForm_ResetsFirst ==
  /\ variant = "AppForm"
  /\ draft' = InitDraft("AppForm")
  /\ IF draft.coords = <<>>
       THEN /\ alertMsg' = "Please select or enter a location"
            /\ Frame({"draft", "alertMsg"})
       ELSE /\ Len(reports) < MaxReports
            /\ reports' = Append(reports, NewComplaint_AppForm(draft, now))
            /\ alertMsg' = "Complaint submitted successfully!"
            /\ generation' = generation + 1
            /\ Frame({"reports", "draft", "alertMsg", "generation"})

handleSubmit_AppForm ==
  /\ variant = "AppForm"
  /\ IF draft.coords = <<>>
       THEN /\ alertMsg' = "Please select or enter a location"
            /\ Frame({"alertMsg"})
       ELSE /\ Len(reports) < MaxReports
            /\ reports' = Append(reports, NewComplaint_AppForm(draft, now))
            /\ draft' = InitDraft("AppForm")
            /\ alertMsg' = "Complaint submitted successfully!"
            /\ generation' = generation + 1
            /\ Frame({"reports", "draft", "alertMsg", "generation"})

\* handleGetCurrentLocation: the request; its callbacks close over `form`
handleGetCurrentLocation ==
  /\ variant = "AppForm"
  /\ edits < MaxEdits
  /\ Len(pending) < MaxPending
  /\ pending' = Append(pending, Call("handleGetCurrentLocation", draft, <<>>))
  /\ edits' = edits + 1
  /\ alertMsg' = "none"
  /\ Frame({"pending", "edits", "alertMsg"})

\* the success callback: setForm({ ...form, location: "Current Location", coords })
positioned_AppForm(i, pos) ==
  /\ variant = "AppForm"
  /\ i \in 1..Len(pending)
  /\ pending[i].op = "handleGetCurrentLocation"
  /\ pending' = RemoveAt(pending, i)
  /\ draft' = [pending[i].draft EXCEPT !.location = CurrentLocation, !.coords = pos]
  /\ searchResults' = <<>>
  /\ alertMsg' = "none"
  /\ Frame({"pending", "draft", "searchResults", "alertMsg"})

\* the error callback
positionFailed_AppForm(i) ==
  /\ variant = "AppForm"
  /\ i \in 1..Len(pending)
  /\ pending[i].op = "handleGetCurrentLocation"
  /\ pending' = RemoveAt(pending, i)
  /\ alertMsg' = "Unable to fetch current location"
  /\ Frame({"pending", "alertMsg"})

\* handleManualLocation up to its await
handleManualLocation ==
  /\ variant = "AppForm"
  /\ IF draft.location = <<>>
       THEN /\ alertMsg' = "Enter a location"
            /\ Frame({"alertMsg"})
       ELSE /\ edits < MaxEdits
            /\ Len(pending) < MaxPending
            /\ pending' = Append(pending, Call("handleManualLocation", <<>>, <<>>))
            /\ edits' = edits + 1
            /\ alertMsg' = "none"
            /\ Frame({"pending", "edits", "alertMsg"})

\* handleManualLocation after its await: the service answered call i
searched_AppForm(i, data) ==
  /\ variant = "AppForm"
  /\ i \in 1..Len(pending)
  /\ pending[i].op = "handleManualLocation"
  /\ pending' = RemoveAt(pending, i)
  /\ IF Len(data) > 0
       THEN /\ searchResults' = data
            /\ alertMsg' = "none"
       ELSE /\ searchResults' = <<>>
            /\ alertMsg' = "Location not found!"
  /\ Frame({"pending", "searchResults", "alertMsg"})

\* the request throws: the catch block
searchFailed_AppForm(i) ==
  /\ variant = "AppForm"
  /\ i \in 1..Len(pending)
  /\ pending[i].op = "handleManualLocation"
  /\ pending' = RemoveAt(pending, i)
  /\ searchResults' = <<>>
  /\ alertMsg' = "Error finding location"
  /\ Frame({"pending", "searchResults", "alertMsg"})

\* handleSelectLocation(result) on the k-th candidate
handleSelectLocation(k) ==
  /\ variant = "AppForm"
  /\ k \in 1..Len(searchResults)
  /\ edits < MaxEdits
  /\ edits' = edits + 1
  /\ draft' = [draft EXCEPT
                 !.coords = <<parseFloat(searchResults[k].lat), parseFloat(searchResults[k].lon)>>,
                 !.location = searchResults[k].display_name]
  /\ searchResults' = <<>>
  /\ alertMsg' = "none"
  /\ Frame({"draft", "searchResults", "edits", "alertMsg"})

---------------------------------------------------------------------------
(* Voice recording of SampleRunBtn *)

\* startRecording up to its await of getUserMedia
startRecording ==
  /\ variant = "SampleRunBtn"
  /\ ~recording
  /\ edits < MaxEdits
  /\ Len(pending) < MaxPending
  /\ pending' = Append(pending, Call("startRecording", <<>>, <<>>))
  /\ edits' = edits + 1
  /\ alertMsg' = "none"
  /\ Frame({"pending", "edits", "alertMsg"})

\* access granted: the recorder is created and started
micGranted(i) ==
  /\ variant = "SampleRunBtn"
  /\ i \in 1..Len(pending)
  /\ pending[i].op = "startRecording"
  /\ pending' = RemoveAt(pending, i)
  /\ recorder' = <<"MediaRecorder">>
  /\ recording' = TRUE
  /\ alertMsg' = "none"
  /\ Frame({"pending", "recorder", "recording", "alertMsg"})

\* access denied: the catch block
micDenied(i) ==
  /\ variant = "SampleRunBtn"
  /\ i \in 1..Len(pending)
  /\ pending[i].op = "startRecording"
  /\ pending' = RemoveAt(pending, i)
  /\ alertMsg' = "Microphone access is required for recording."
  /\ Frame({"pending", "alertMsg"})

\* stopRecording, and the onstop handler the recorder then runs:
\* setAudioBlob(blob)
stopRecording ==
  /\ variant = "SampleRunBtn"
  /\ recording
  /\ recorder # <<>>
  /\ recording' = FALSE
  /\ draft' = [draft EXCEPT !.audioBlob = 1]
  /\ alertMsg' = "none"
  /\ Frame({"recording", "draft", "alertMsg"})

---------------------------------------------------------------------------
(* Device geolocation: the mount effect of civic-pulse App, the button of AppForm *)

\* The state once the mount effect has run: civic-pulse App has asked for the
\* position if the browser has navigator.geolocation; AppForm asks on a click.
InitGeolocation ==
  /\ variant \in {"App", "AppForm"}
  /\ draft = InitDraft(variant)
  /\ now = 1
  /\ commentTexts = <<>>
  /\ reports = <<>>
  /\ mapCenter = DefaultMapCenter(variant)
  /\ previewCoords = <<>>
  /\ searchResults = <<>>
  /\ recording = FALSE
  /\ recorder = <<>>
  /\ alertMsg = "none"
  /\ db = <<>>
  /\ res = Reply("none", "none", 0, "", <<>>)
  /\ upvoteCalls = [i \in Ids |-> 0]
  /\ commentCalls = [i \in Ids |-> 0]
  /\ generation = 0
  /\ rejectedAt = -1
  /\ edits = 0
  /\ pending \in IF variant = "App"
                   THEN {<<>>, <<Call("getCurrentPosition", <<>>, <<>>)>>}
                   ELSE {<<>>}

\* the success callback of the effect: setLocation({ lat, lng })
positioned_App(i, pos) ==
  /\ variant = "App"
  /\ i \in 1..Len(pending)
  /\ pending[i].op = "getCurrentPosition"
  /\ pending' = RemoveAt(pending, i)
  /\ draft' = [draft EXCEPT !.location = pos]
  /\ alertMsg' = "none"
  /\ Frame({"pending", "draft", "alertMsg"})

\* the error callback of the effect: console.warn and nothing else
positionFailed_App(i) ==
  /\ variant = "App"
  /\ i \in 1..Len(pending)
  /\ pending[i].op = "getCurrentPosition"
  /\ pending' = RemoveAt(pending, i)
  /\ alertMsg' = "none"
  /\ Frame({"pending", "alertMsg"})

NextGeolocation ==
  \/ Tick
  \/ \E i \in 1..MaxPending, pos \in GpsPositions : positioned_App(i, pos)
  \/ \E i \in 1..MaxPending : positionFailed_App(i)
  \/ \E pos \in Clicks : LocationPicker(pos)
  \/ submitReport_App
  \/ \E text \in AddressTexts : setForm("location", text)
  \/ \E c \in Clicks : LocationSelector(c)
  \/ handleGetCurrentLocation
  \/ \E i \in 1..MaxPending, pos \in GpsPositions : positioned_AppForm(i, pos)
  \/ \E i \in 1..MaxPending : positionFailed_AppForm(i)
  \/ handleSubmit_AppForm

SpecGeolocation == InitGeolocation /\ [][NextGeolocation]_vars

---------------------------------------------------------------------------
(* Voice recording of civic-pulse App and of AppForm *)

\* civic-pulse App: the one button runs startRecording when `recording` is
\* false; the handler runs up to its await of getUserMedia.
startRecording_App ==
  /\ variant = "App"
  /\ ~recording
  /\ edits < MaxEdits
  /\ Len(pending) < MaxPending
  /\ pending' = Append(pending, Call("startRecording", <<>>, <<>>))
  /\ edits' = edits + 1
  /\ alertMsg' = "none"
  /\ Frame({"pending", "edits", "alertMsg"})

\* access granted: mediaRecorderRef.current = new MediaRecorder(stream),
\* start(), setRecording(true)
micGranted_App(i) ==
  /\ variant = "App"
  /\ i \in 1..Len(pending)
  /\ pending[i].op = "startRecording"
  /\ pending' = RemoveAt(pending, i)
  /\ recorder' = <<"MediaRecorder">>
  /\ recording' = TRUE
  /\ alertMsg' = "none"
  /\ Frame({"pending", "recorder", "recording", "alertMsg"})

\* access denied: the catch block
micDenied_App(i) ==
  /\ variant = "App"
  /\ i \in 1..Len(pending)
  /\ pending[i].op = "startRecording"
  /\ pending' = RemoveAt(pending, i)
  /\ alertMsg' = "Microphone access is required to record audio."
  /\ Frame({"pending", "alertMsg"})

\* the button runs stopRecording when `recording` is true; the recorder's
\* onstop handler then runs setAudioBlob(blob)
stopRecording_App ==
  /\ variant = "App"
  /\ recording
  /\ recording' = FALSE
  /\ draft' = IF recorder # <<>> THEN [draft EXCEPT !.audioBlob = 1] ELSE draft
  /\ alertMsg' = "none"
  /\ Frame({"recording", "draft", "alertMsg"})

\* AppForm: the start button is rendered when `recording` is false; the
\* onstop handler the call will install closes over the form of this render.
startRecording_AppForm ==
  /\ variant = "AppForm"
  /\ ~recording
  /\ edits < MaxEdits
  /\ Len(pending) < MaxPending
  /\ pending' = Append(pending, Call("startRecording", draft, <<>>))
  /\ edits' = edits + 1
  /\ alertMsg' = "none"
  /\ Frame({"pending", "edits", "alertMsg"})

\* access granted: the ref holds the new recorder, whose onstop handler
\* carries the captured form
micGranted_AppForm(i) ==
  /\ variant = "AppForm"
  /\ i \in 1..Len(pending)
  /\ pending[i].op = "startRecording"
  /\ pending' = RemoveAt(pending, i)
  /\ recorder' = <<pending[i].draft>>
  /\ recording' = TRUE
  /\ alertMsg' = "none"
  /\ Frame({"pending", "recorder", "recording", "alertMsg"})

\* access denied: the catch block
micDenied_AppForm(i) ==
  /\ variant = "AppForm"
  /\ i \in 1..Len(pending)
  /\ pending[i].op = "startRecording"
  /\ pending' = RemoveAt(pending, i)
  /\ alertMsg' = "Microphone access denied or not available"
  /\ Frame({"pending", "alertMsg"})

\* the stop button is rendered when `recording` is true; onstop runs
\* setForm({ ...form, audio: audioURL }) with the captured form
stopRecording_AppForm ==
  /\ variant = "AppForm"
  /\ recording
  /\ IF recorder # <<>>
       THEN /\ recording' = FALSE
            /\ draft' = [recorder[1] EXCEPT !.audio = 1]
       ELSE UNCHANGED <<recording, draft>>
  /\ alertMsg' = "none"
  /\ Frame({"recording", "draft", "alertMsg"})

NextRecording ==
  \/ Tick
  \/ \E f \in Files : handlePhoto(f)
  \/ \E text \in AddressTexts : setForm("location", text)
  \/ startRecording_App
  \/ \E i \in 1..MaxPending : micGranted_App(i)
  \/ \E i \in 1..MaxPending : micDenied_App(i)
  \/ stopRecording_App
  \/ startRecording_AppForm
  \/ \E i \in 1..MaxPending : micGranted_AppForm(i)
  \/ \E i \in 1..MaxPending : micDenied_AppForm(i)
  \/ stopRecording_AppForm

SpecRecording == InitOf({"App", "AppForm"}) /\ [][NextRecording]_vars

NextFailure ==
  \/ Tick
  \/ \E text \in AddressTexts : setForm("location", text)
  \/ \E c \in Clicks : LocationSelector(c)
  \/ handleSubmit_AppForm
  \/ handleGetCurrentLocation
  \/ \E i \in 1..MaxPending, pos \in GpsPositions : positioned_AppForm(i, pos)
  \/ \E i \in 1..MaxPending : positionFailed_AppForm(i)
  \/ handleManualLocation
  \/ \E i \in 1..MaxPending, data \in GeocodeResults : searched_AppForm(i, data)
  \/ \E i \in 1..MaxPending : searchFailed_AppForm(i)
  \/ \E k \in 1..2 : handleSelectLocation(k)
  \/ startRecording
  \/ \E i \in 1..MaxPending : micGranted(i)
  \/ \E i \in 1..MaxPending : micDenied(i)
  \/ stopRecording
  \/ \E f \in Files : handlePhoto(f)
  \/ \E text \in AddressTexts : setAddress(text)
  \/ handleAddressBlur
  \/ \E i \in 1..MaxPending, data \in GeocodeResults : previewed_SampleRunBtn(i, data)
  \/ handleSubmit_SampleRunBtn
  \/ \E i \in 1..MaxPending, data \in GeocodeResults : geocoded_SampleRunBtn(i, data)
  \/ \E i \in 1..MaxPending : geocodeRejected_SampleRunBtn(i)
  \/ \E text \in LocationInputs : handleLocationChange(text)
  \/ setLocationFromInput

SpecFailure == InitOf({"AppForm", "SampleRunBtn", "App"}) /\ [][NextFailure]_vars

---------------------------------------------------------------------------
(* Votes and comments: App, InitialCode, SampleRun000, SampleRunBtn *)

Social == {"App", "InitialCode", "SampleRun000", "SampleRunBtn"}

Present(id) == \E k \in 1..Len(reports) : reports[k].id = id

\* prev.map((r) => (r.id === id ? { ...r, votes: r.votes + 1 } : r))
MapUpvote(rs, id) ==
  [k \in 1..Len(rs) |->
     IF rs[k].id = id THEN [rs[k] EXCEPT !.votes = @ + 1] ELSE rs[k]]

\* prev.map((r) => r.id === id ? { ...r, comments: [...r.comments, text] } : r)
MapComment(rs, id, text) ==
  [k \in 1..Len(rs) |->
     IF rs[k].id = id THEN [rs[k] EXCEPT !.comments = Append(@, text)] ELSE rs[k]]

upvote(id) ==
  /\ variant \in Social
  /\ Present(id) => upvoteCalls[id] < MaxVotes
  /\ reports' = MapUpvote(reports, id)
  /\ upvoteCalls' = IF Present(id) THEN [upvoteCalls EXCEPT ![id] = @ + 1]
                                   ELSE upvoteCalls
  /\ alertMsg' = "none"
  /\ Frame({"reports", "upvoteCalls", "alertMsg"})

\* The comment input shown with report id: commentTexts[id] || "", and the
\* one commentText of InitialCode
BufferOf(id) ==
  IF variant = "InitialCode" THEN draft.commentText ELSE GetOrEmpty(commentTexts, id)

\* onChange of the comment input of report id
setCommentText(id, text) ==
  /\ variant \in Social
  /\ Present(id)
  /\ edits < MaxEdits
  /\ text # BufferOf(id)
  /\ edits' = edits + 1
  /\ alertMsg' = "none"
  /\ IF variant = "InitialCode"
       THEN /\ draft' = [draft EXCEPT !.commentText = text]
            /\ Frame({"draft", "edits", "alertMsg"})
       ELSE /\ commentTexts' = Put(commentTexts, id, text)
            /\ Frame({"commentTexts", "edits", "alertMsg"})

\* The text read without trimming it.
CommentOf_NoTrim(buffers, id) == GetOrEmpty(buffers, id)

\* const text = commentTexts[id]?.trim(); undefined reads as the empty text
CommentOf(buffers, id) == trim(GetOrEmpty(buffers, id))

addComment(id) ==
  /\ variant \in Social \ {"InitialCode"}
  /\ commentCalls[id] < MaxComments
  /\ commentCalls' = [commentCalls EXCEPT ![id] = @ + 1]
  /\ alertMsg' = "none"
  /\ IF CommentOf(commentTexts, id) = <<>>
       THEN Frame({"commentCalls", "alertMsg"})
       ELSE /\ reports' = MapComment(reports, id, CommentOf(commentTexts, id))
            /\ commentTexts' = Put(commentTexts, id, <<>>)
            /\ Frame({"commentCalls", "alertMsg", "reports", "commentTexts"})

addComment_InitialCode(id) ==
  /\ variant = "InitialCode"
  /\ commentCalls[id] < MaxComments
  /\ commentCalls' = [commentCalls EXCEPT ![id] = @ + 1]
  /\ alertMsg' = "none"
  /\ IF trim(draft.commentText) = <<>>
       THEN Frame({"commentCalls", "alertMsg"})
       ELSE /\ reports' = MapComment(reports, id, draft.commentText)
            /\ draft' = [draft EXCEPT !.commentText = <<>>]
            /\ Frame({"commentCalls", "alertMsg", "reports", "draft"})

NextVotes ==
  \/ Tick
  \/ \E f \in Files : handlePhoto(f)
  \/ \E text \in AddressTexts : setAddress(text)
  \/ submitReport_App
  \/ submitReport_InitialCode
  \/ handleSubmit_SampleRunBtn
  \/ \E i \in 1..MaxPending, data \in GeocodeResults : geocoded_SampleRunBtn(i, data)
  \/ \E i \in 1..MaxPending : geocodeRejected_SampleRunBtn(i)
  \/ \E id \in Ids : upvote(id)

SpecVotes == InitOf({"App", "InitialCode", "SampleRunBtn"}) /\ [][NextVotes]_vars

NextComments ==
  \/ Tick
  \/ submitReport_App
  \/ submitReport_InitialCode
  \/ \E id \in Ids, text \in CommentInputs : setCommentText(id, text)
  \/ \E id \in Ids : addComment(id)
  \/ \E id \in Ids : addComment_InitialCode(id)

SpecComments == InitOf({"App", "InitialCode"}) /\ [][NextComments]_vars

\* Comments and votes on the reports of the components that geocode on submit
NextThreads ==
  \/ Tick
  \/ \E f \in Files : handlePhoto(f)
  \/ \E text \in AddressTexts : setAddress(text)
  \/ handleSubmit_SampleRunBtn
  \/ \E i \in 1..MaxPending, data \in GeocodeResults : geocoded_SampleRunBtn(i, data)
  \/ submitReport_SampleRun000
  \/ \E i \in 1..MaxPending, data \in GeocodeResults : geocoded_SampleRun000(i, data)
  \/ \E id \in Ids, text \in CommentInputs : setCommentText(id, text)
  \/ \E id \in Ids : addComment(id)

SpecThreads == InitOf({"SampleRunBtn", "SampleRun000"}) /\ [][NextThreads]_vars

---------------------------------------------------------------------------
(* Specification of the submission pipelines *)

NextSubmit ==
  \/ Tick
  \/ \E t \in Range(ISSUE_TYPES) : setIssueType(t)
  \/ \E a \in Range(MOCK_AUTHORITIES) : setAuthority(a)
  \/ \E f \in Files : handlePhoto(f)
  \/ \E c \in Clicks : LocationPicker(c)
  \/ \E text \in AddressTexts : setAddress(text)
  \/ \E text \in LocationInputs : handleLocationChange(text)
  \/ setLocationFromInput
  \/ submitReport_App
  \/ submitReport_App002
  \/ submitReport_SampleRun000
  \/ \E i \in 1..MaxPending, data \in GeocodeResults : geocoded_SampleRun000(i, data)
  \/ \E i \in 1..MaxPending : geocodeRejected_SampleRun000(i)
  \/ \E text \in LocationNames \cup {<<>>} : setLocationName(text)
  \/ setLocationFromName
  \/ \E i \in 1..MaxPending, data \in GeocodeResults : located_AppLocName(i, data)
  \/ \E i \in 1..MaxPending : locateFailed_AppLocName(i)
  \/ submitReport_AppLocName
  \/ \E text \in ReporterLocations \cup {<<>>} : setField_Reporter("location", text)
  \/ \E x \in Issues : setField_Reporter("issue", x)
  \/ \E x \in Urgencies : setField_Reporter("urgency", x)
  \/ \E x \in Statuses : setField_Reporter("status", x)
  \/ \E x \in Files : setField_Reporter("file", x)
  \/ handleSubmit_Reporter

SpecSubmit ==
  InitOf({"App", "App002", "SampleRun000", "AppLocName", "Reporter"})
    /\ [][NextSubmit]_vars

---------------------------------------------------------------------------
(* The backend: complaint routes, admin routes and the Complaint schema *)

\* Who sends a request: no token, a citizen's token, an admin's token
Callers == {"anonymous", "citizen", "admin"}

\* middleware auth: the request goes on only with a valid token
auth(caller) == caller # "anonymous"

\* middleware adminOnly: the request goes on only for the admin role
adminOnly(caller) == caller = "admin"

\* The answer of the two middlewares, "next" when both let the request pass
Guarded(caller) ==
  IF ~auth(caller) THEN 401
  ELSE IF ~adminOnly(caller) THEN 403
  ELSE 0

\* The ids a request can name: ObjectIds, present or not, and 0 for a text
\* that is no ObjectId ("abc"), which findByIdAndUpdate refuses to cast
RequestIds == 0..MaxDocs

\* const allowed = ['pending','in-progress','resolved']
allowed == {"pending", "in-progress", "resolved"}

\* req.body.status: "undefined" is a body without the field
StatusInputs == {"resolved", "Pending", "undefined"}

\* req.body.assignedTo
AssigneeInputs == {"roads", "undefined"}

\* req.body of POST /complaints
CategoryInputs == {"", "pothole", "garbage"}

\* new Complaint({...}) under the schema: paths the schema does not declare
\* are dropped, defaults are filled in (status: 'pending' in
\* models/Complaints.js, 'Pending' in part_001)
NewComplaint(v, id, body, t) ==
  IF v = "Backend"
    THEN [_id |-> id, title |-> body.title, category |-> body.category,
          authority |-> body.authority, status |-> "pending",
          assignedTo |-> "undefined", createdAt |-> t, updatedAt |-> t]
    ELSE [_id |-> id, title |-> body.title, status |-> "Pending", date |-> t]

IndexOf(docs, id) ==
  IF \E k \in 1..Len(docs) : docs[k]._id = id
    THEN CHOOSE k \in 1..Len(docs) : docs[k]._id = id
    ELSE 0

\* Complaint.findByIdAndUpdate(id, update, { new: true }) on an ObjectId;
\* a path of the update that the schema does not declare is dropped
findByIdAndUpdate(docs, id, update) ==
  [k \in 1..Len(docs) |->
     IF docs[k]._id = id
       THEN [f \in DOMAIN docs[k] |->
               IF f \in DOMAIN update THEN update[f] ELSE docs[k][f]]
       ELSE docs[k]]

\* The state of the server when it starts answering
InitBackend ==
  /\ variant \in {"Backend", "Backend001"}
  /\ draft = <<>>
  /\ now = 1
  /\ commentTexts = <<>>
  /\ reports = <<>>
  /\ mapCenter = <<>>
  /\ previewCoords = <<>>
  /\ searchResults = <<>>
  /\ pending = <<>>
  /\ recording = FALSE
  /\ recorder = <<>>
  /\ alertMsg = "none"
  /\ db = <<>>
  /\ res = Reply("none", "none", 0, "", <<>>)
  /\ upvoteCalls = [i \in Ids |-> 0]
  /\ commentCalls = [i \in Ids |-> 0]
  /\ generation = 0
  /\ rejectedAt = -1
  /\ edits = 0

\* POST /complaints
post_complaints(caller, body) ==
  /\ variant \in {"Backend", "Backend001"}
  /\ IF ~auth(caller)
       THEN /\ res' = Reply("POST /complaints", caller, 401, "Unauthorized", <<>>)
            /\ Frame({"res"})
     ELSE IF body.title = "" \/ body.category = "" \/ body.authority = ""
       THEN /\ res' = Reply("POST /complaints", caller, 400,
                            "title, category and authority are required", <<>>)
            /\ Frame({"res"})
     ELSE /\ Len(db) < MaxDocs
          /\ edits < MaxEdits
          /\ edits' = edits + 1
          /\ db' = Append(db, NewComplaint(variant, Len(db) + 1, body, now))
          /\ res' = Reply("POST /complaints", caller, 201, "Complaint submitted",
                          NewComplaint(variant, Len(db) + 1, body, now))
          /\ Frame({"db", "res", "edits"})

\* GET /admin/test of part_001: no middleware
get_test(caller) ==
  /\ variant = "Backend001"
  /\ res' = Reply("GET /admin/test", caller, 200, "ok", <<>>)
  /\ Frame({"res"})

\* GET /admin/complaints: newest first
get_complaints(caller) ==
  /\ variant \in {"Backend", "Backend001"}
  /\ IF Guarded(caller) # 0
       THEN res' = Reply("GET /admin/complaints", caller, Guarded(caller), "denied", <<>>)
       ELSE res' = Reply("GET /admin/complaints", caller, 200, "",
                         [k \in 1..Len(db) |-> db[Len(db) + 1 - k]])
  /\ Frame({"res"})

\* The check of req.body.status that lets every text through.
AcceptsStatus_AnyText(v, status) == status # "undefined"

\* if (!allowed.includes(status)), and if (!status || ...) in part_001
AcceptsStatus(v, status) ==
  IF v = "Backend"
    THEN status \in allowed
    ELSE ~(status \in {"", "undefined"}) /\ status \in allowed

\* PATCH /admin/complaints/:id/status
patch_status(caller, id, status) ==
  /\ variant \in {"Backend", "Backend001"}
  /\ IF Guarded(caller) # 0
       THEN /\ res' = Reply("PATCH /admin/complaints/:id/status", caller,
                            Guarded(caller), "denied", <<>>)
            /\ Frame({"res"})
     ELSE IF ~AcceptsStatus(variant, status)
       THEN /\ res' = Reply("PATCH /admin/complaints/:id/status", caller, 400,
                            "Invalid status", <<>>)
            /\ Frame({"res"})
     ELSE IF id = 0
       THEN /\ res' = Reply("PATCH /admin/complaints/:id/status", caller, 500,
                            "Server error", <<>>)
            /\ Frame({"res"})
     ELSE IF IndexOf(db, id) = 0
       THEN /\ res' = Reply("PATCH /admin/complaints/:id/status", caller, 404,
                            "Complaint not found", <<>>)
            /\ Frame({"res"})
     ELSE /\ edits < MaxEdits
          /\ edits' = edits + 1
          /\ db' = findByIdAndUpdate(db, id, [status |-> status, updatedAt |-> now])
          /\ res' = Reply("PATCH /admin/complaints/:id/status", caller, 200,
                          "Status updated", db'[IndexOf(db, id)])
          /\ Frame({"db", "res", "edits"})

\* The update { assignedTo, updatedAt: Date.now() } as it is sent: an
\* undefined assignedTo is left out or written as null, depending on the
\* version of the driver.
AssignUpdates(assignedTo, t) ==
  IF assignedTo = "undefined"
    THEN {[updatedAt |-> t], [assignedTo |-> "null", updatedAt |-> t]}
    ELSE {[assignedTo |-> assignedTo, updatedAt |-> t]}

\* PATCH /admin/complaints/:id/assign; part_001 first asks for the field
patch_assign(caller, id, assignedTo) ==
  /\ variant \in {"Backend", "Backend001"}
  /\ IF Guarded(caller) # 0
       THEN /\ res' = Reply("PATCH /admin/complaints/:id/assign", caller,
                            Guarded(caller), "denied", <<>>)
            /\ Frame({"res"})
     ELSE IF variant = "Backend001" /\ assignedTo = "undefined"
       THEN /\ res' = Reply("PATCH /admin/complaints/:id/assign", caller, 400,
                            "AssignedTo field is required", <<>>)
            /\ Frame({"res"})
     ELSE IF id = 0
       THEN /\ res' = Reply("PATCH /admin/complaints/:id/assign", caller, 500,
                            "Server error", <<>>)
            /\ Frame({"res"})
     ELSE IF IndexOf(db, id) = 0
       THEN /\ res' = Reply("PATCH /admin/complaints/:id/assign", caller, 404,
                            "Complaint not found", <<>>)
            /\ Frame({"res"})
     ELSE /\ edits < MaxEdits
          /\ edits' = edits + 1
          /\ \E update \in AssignUpdates(assignedTo, now) :
               db' = findByIdAndUpdate(db, id, update)
          /\ res' = Reply("PATCH /admin/complaints/:id/assign", caller, 200,
                          "Assigned", db'[IndexOf(db, id)])
          /\ Frame({"db", "res", "edits"})

\* Complaint.aggregate([{ $group: { _id: "$path", count: { $sum: 1 } } }])
\* (a document without the path is grouped under null)
aggregate(docs, path) ==
  LET key(doc) == IF path \in DOMAIN doc THEN doc[path] ELSE "null"
  IN  [g \in {key(docs[k]) : k \in 1..Len(docs)} |->
         Cardinality({k \in 1..Len(docs) : key(docs[k]) = g})]

\* GET /admin/analytics up to its first await: Complaint.countDocuments() is sent
get_analytics(caller) ==
  /\ variant \in {"Backend", "Backend001"}
  /\ IF Guarded(caller) # 0
       THEN /\ res' = Reply("GET /admin/analytics", caller, Guarded(caller), "denied", <<>>)
            /\ Frame({"res"})
       ELSE /\ Len(pending) < MaxPending
            /\ edits < MaxEdits
            /\ edits' = edits + 1
            /\ pending' = Append(pending, Call("countDocuments", [caller |-> caller], <<>>))
            /\ Frame({"pending", "edits"})

\* countDocuments answers; the first aggregate is sent
counted(i) ==
  /\ variant \in {"Backend", "Backend001"}
  /\ i \in 1..Len(pending)
  /\ pending[i].op = "countDocuments"
  /\ pending' = [pending EXCEPT ![i] =
                   Call("aggregate status",
                        [caller |-> pending[i].draft.caller, total |-> Len(db)], <<>>)]
  /\ Frame({"pending"})

\* the aggregate by status answers; the aggregate by category is sent
groupedByStatus(i) ==
  /\ variant \in {"Backend", "Backend001"}
  /\ i \in 1..Len(pending)
  /\ pending[i].op = "aggregate status"
  /\ pending' = [pending EXCEPT ![i] =
                   Call("aggregate category",
                        [caller |-> pending[i].draft.caller,
                         total |-> pending[i].draft.total,
                         byStatus |-> aggregate(db, "status")], <<>>)]
  /\ Frame({"pending"})

\* the aggregate by category answers: res.json({ total, byStatus, byCategory })
groupedByCategory(i) ==
  /\ variant \in {"Backend", "Backend001"}
  /\ i \in 1..Len(pending)
  /\ pending[i].op = "aggregate category"
  /\ pending' = RemoveAt(pending, i)
  /\ res' = Reply("GET /admin/analytics", pending[i].draft.caller, 200, "",
                  [total |-> pending[i].draft.total,
                   byStatus |-> pending[i].draft.byStatus,
                   byCategory |-> aggregate(db, "category")])
  /\ Frame({"pending", "res"})

NextBackend ==
  \/ Tick
  \/ \E caller \in Callers, title \in {"", "t"}, category \in CategoryInputs :
       post_complaints(caller, [title |-> title, category |-> category,
                                authority |-> "muni"])
  \/ \E caller \in Callers : get_test(caller)
  \/ \E caller \in Callers : get_complaints(caller)
  \/ \E caller \in Callers, id \in RequestIds, status \in StatusInputs :
       patch_status(caller, id, status)
  \/ \E caller \in Callers, id \in RequestIds, assignedTo \in AssigneeInputs :
       patch_assign(caller, id, assignedTo)
  \/ \E caller \in Callers : get_analytics(caller)
  \/ \E i \in 1..MaxPending : counted(i)
  \/ \E i \in 1..MaxPending : groupedByStatus(i)
  \/ \E i \in 1..MaxPending : groupedByCategory(i)

SpecBackend == InitBackend /\ [][NextBackend]_vars

\* Creation and the status route alone
NextStatus ==
  \/ Tick
  \/ \E caller \in Callers, category \in CategoryInputs :
       post_complaints(caller, [title |-> "t", category |-> category,
                                authority |-> "muni"])
  \/ \E caller \in Callers, id \in RequestIds, status \in StatusInputs :
       patch_status(caller, id, status)

SpecStatus == InitBackend /\ [][NextStatus]_vars

---------------------------------------------------------------------------
(* ComplaintList: src/civic-pulse/src/App.js:350, the list fed by the backend *)

\* ComplaintList as mounted: complaints is [] and the effect has sent
\* api.get("/complaints")
InitComplaintList ==
  /\ variant = "ComplaintList"
  /\ draft = <<>>
  /\ now = 1
  /\ commentTexts = <<>>
  /\ reports = <<>>
  /\ mapCenter = <<>>
  /\ previewCoords = <<>>
  /\ searchResults = <<>>
  /\ recording = FALSE
  /\ recorder = <<>>
  /\ alertMsg = "none"
  /\ db = <<>>
  /\ res = Reply("none", "none", 0, "", <<>>)
  /\ upvoteCalls = [i \in Ids |-> 0]
  /\ commentCalls = [i \in Ids |-> 0]
  /\ generation = 0
  /\ rejectedAt = -1
  /\ edits = 0
  /\ pending = <<Call("fetchComplaints", <<>>, <<>>)>>

\* The newComplaint prop changes to complaint c: the effect on [newComplaint]
\* runs setComplaints((prev) => [newComplaint, ...prev])
newComplaint(c) ==
  /\ variant = "ComplaintList"
  /\ Len(reports) < MaxReports
  /\ edits < MaxEdits
  /\ edits' = edits + 1
  /\ reports' = <<c>> \o reports
  /\ Frame({"reports", "edits"})

\* api.get("/complaints") answers: setComplaints(res.data), or the catch
\* block with its console.error when the request fails
fetchComplaints(i, ok, data) ==
  /\ variant = "ComplaintList"
  /\ i \in 1..Len(pending)
  /\ pending[i].op = "fetchComplaints"
  /\ pending' = RemoveAt(pending, i)
  /\ IF ok
       THEN /\ reports' = data
            /\ Frame({"pending", "reports"})
       ELSE /\ data = <<>>
            /\ Frame({"pending"})

\* The complaints the parent hands over and the lists the backend answers
NextComplaintList ==
  \/ Tick
  \/ \E id \in Ids, title \in {"t", "u"} : newComplaint([_id |-> id, title |-> title])
  \/ \E i \in 1..MaxPending, ok \in BOOLEAN,
        data \in {<<>>, <<[_id |-> 1, title |-> "t"]>>,
                  <<[_id |-> 2, title |-> "u"], [_id |-> 1, title |-> "t"]>>} :
       fetchComplaints(i, ok, data)

SpecComplaintList == InitComplaintList /\ [][NextComplaintList]_vars

---------------------------------------------------------------------------
(* Claims *)

InRange(lat, lng) ==
  /\ ~isNaN(lat) /\ ~isNaN(lng)
  /\ -90 <= lat /\ lat <= 90
  /\ -180 <= lng /\ lng <= 180

\* reports' is reports with the one report r added, wherever it was put
AddsExactly(r) ==
  /\ Len(reports') = Len(reports) + 1
  /\ \E k \in 1..Len(reports') : reports'[k] = r /\ RemoveAt(reports', k) = reports

C1_App ==
  (submitReport_App /\ InRange(draft.location[1], draft.location[2])) =>
    \E r \in Range(reports') :
      /\ AddsExactly(r)
      /\ r.type = draft.issueType /\ r.authority = draft.authority
      /\ <<r.lat, r.lng>> = draft.location
      /\ r.votes = 0 /\ r.comments = <<>>

C1_SampleRun000 ==
  \A i \in 1..Len(pending), data \in GeocodeResults :
    (geocoded_SampleRun000(i, data) /\ data # <<>>) =>
      \E r \in Range(reports') :
        /\ AddsExactly(r)
        /\ r.issueType = pending[i].draft.issueType
        /\ r.authority = pending[i].draft.authority
        /\ <<r.lat, r.lng>> = geocodeAddress(data)
        /\ r.votes = 0 /\ r.comments = <<>>

\* C1: one submission of a valid draft adds exactly one new Report, which
\* carries the draft's category, authority and position and has votes = 0
\* and comments = [] (for SampleRun000 the position is the geocoded one).
C1_SubmissionAddsOneReport == [][C1_App /\ C1_SampleRun000]_vars

\* Two reports were submitted in App, the second from an edited draft.
C1_Witness ==
  /\ variant = "App"
  /\ Len(reports) = 2
  /\ reports[1].type = "Garbage" /\ reports[1].lat = 12
  /\ reports[2].type = "Pothole" /\ reports[2].lat = 11

C2_AppLocName ==
  (submitReport_AppLocName /\ draft.photoPreview = 0) => reports' = reports

C2_SampleRun000 ==
  (submitReport_SampleRun000 /\ (trim(draft.address) = <<>> \/ draft.photoPreview = 0))
    => reports' = reports /\ pending' = pending

C2_Reporter ==
  (handleSubmit_Reporter /\ (draft.location = <<>> \/ draft.issue = ""))
    => reports' = reports

\* C2: a submission of a draft that misses a required field (photo, address,
\* location or issue) creates no Report: the collection stays as it was and
\* no geocoding request is started on its behalf.
C2_MissingFieldRejected == [][C2_AppLocName /\ C2_SampleRun000 /\ C2_Reporter]_vars

\* SampleRun000 has one report and has just rejected a draft without photo.
C2_Witness ==
  /\ variant = "SampleRun000"
  /\ Len(reports) = 1
  /\ draft.address # <<>>
  /\ alertMsg = "Please upload a photo."

\* The collection, the form and the map focus are as they were.
NothingChanged ==
  reports' = reports /\ draft' = draft /\ MapFocus' = MapFocus

C3_AppForm ==
  /\ (handleSubmit_AppForm /\ draft.coords = <<>>) => NothingChanged
  /\ (handleManualLocation /\ draft.location = <<>>) => NothingChanged
  /\ \A i \in 1..Len(pending) :
       (\/ positionFailed_AppForm(i)
        \/ searched_AppForm(i, <<>>)
        \/ searchFailed_AppForm(i)) => NothingChanged

C3_SampleRunBtn ==
  /\ (handleSubmit_SampleRunBtn /\ Validate_SampleRunBtn(draft) # "none") => NothingChanged
  /\ \A i \in 1..Len(pending) :
       (\/ geocoded_SampleRunBtn(i, <<>>)
        \/ micDenied(i)) => NothingChanged

C3_App ==
  (setLocationFromInput /\ ~AcceptsInput(draft.locationInput)) => NothingChanged

\* C3: a submission or position resolution that ends in an error (missing
\* field, invalid coordinates, location unavailable, location not found,
\* microphone denied) leaves the collection, every field of the form and the
\* map focus as they were.
C3_FailureIsAtomic == [][C3_AppForm /\ C3_SampleRunBtn /\ C3_App]_vars

\* AppForm holds one complaint and a typed location whose search found nothing.
C3_Witness ==
  /\ variant = "AppForm"
  /\ Len(reports) = 1
  /\ draft.location = <<"a">>
  /\ alertMsg = "Location not found!"

\* C4: when the geocoding service returns no match, the collection and the
\* map focus stay as they were and the user is told, at every entry point:
\* set-location, submit-time geocoding, candidate search and the on-blur
\* preview of the address.
C4_ZeroMatchesSurfaced ==
  [][\A i \in 1..Len(pending) :
       (\/ located_AppLocName(i, <<>>)
        \/ geocoded_SampleRun000(i, <<>>)
        \/ geocoded_SampleRunBtn(i, <<>>)
        \/ searched_AppForm(i, <<>>)
        \/ previewed_SampleRunBtn(i, <<>>))
         => /\ reports' = reports
            /\ MapFocus' = MapFocus
            /\ alertMsg' # "none"]_vars

\* The text is two numerals separated by one comma, white space around each
\* allowed, with the latitude in [-90,90] and the longitude in [-180,180].
WellFormedCoords(text) ==
  LET parts == split(text)
  IN  /\ Len(parts) = 2
      /\ IsNumeral(trim(parts[1])) /\ IsNumeral(trim(parts[2]))
      /\ InRange(Number(parts[1]), Number(parts[2]))

C5_TextBox ==
  setLocationFromInput =>
    IF WellFormedCoords(draft.locationInput)
      THEN draft'.location =
             <<Number(split(draft.locationInput)[1]), Number(split(draft.locationInput)[2])>>
      ELSE draft'.location = draft.location /\ alertMsg' # "none"

C5_NumberFields ==
  addReport_SampleRun003 =>
    IF IsNumeral(draft.lat) /\ IsNumeral(draft.lng)
         /\ InRange(Number(draft.lat), Number(draft.lng))
      THEN draft.photoPreview # 0 =>
             /\ Len(reports') = Len(reports) + 1
             /\ <<reports'[1].lat, reports'[1].lng>> = <<Number(draft.lat), Number(draft.lng)>>
      ELSE reports' = reports /\ alertMsg' # "none"

\* C5: direct entry accepts a text only if it is two numbers separated by a
\* comma with latitude in [-90,90] and longitude in [-180,180], and then sets
\* the position to exactly those numbers; every other text is rejected and
\* leaves the position as it was.
C5_DirectEntryChecked == [][C5_TextBox /\ C5_NumberFields]_vars

\* C6: a report whose id is its own carries as many votes as upvote was
\* called on its id, whatever else happened in between.
C6_VotesEqualCalls ==
  \A k \in 1..Len(reports) :
    (\A j \in 1..Len(reports) : reports[j].id = reports[k].id => j = k)
      => reports[k].votes = upvoteCalls[reports[k].id]

C7_Step(id) ==
  ((addComment(id) \/ addComment_InitialCode(id)) /\ trim(BufferOf(id)) = <<>>)
    => reports' = reports /\ commentTexts' = commentTexts /\ draft' = draft

\* C7: addComment(id) with an empty or white-space-only text changes
\* nothing: all comment sequences and the comment inputs stay as they were.
C7_BlankCommentIgnored == [][\A id \in Ids : C7_Step(id)]_vars

\* In App, addComment was called twice on a report: once with the text that
\* is now its only comment, once with a blank text, which is still in the input.
C7_Witness ==
  /\ variant = "App"
  /\ \E k \in 1..Len(reports) :
       /\ commentCalls[reports[k].id] = 2
       /\ reports[k].comments = << <<"a">> >>
       /\ commentTexts[reports[k].id] = <<" ">>
       /\ \A j \in 1..Len(reports) : reports[j].id = reports[k].id => j = k

C8_Step(id) ==
  ((addComment(id) \/ addComment_InitialCode(id))
     /\ trim(BufferOf(id)) # <<>> /\ Present(id))
    => /\ reports' = MapComment(reports, id, trim(BufferOf(id)))
       /\ BufferOf(id)' = <<>>
       /\ \A other \in Ids \ {id} : BufferOf(other)' = BufferOf(other)

\* C8: addComment(id) with a non-blank text appends the trimmed text as the
\* last comment of that report, keeps the earlier comments in order, and
\* clears the input of that report id only.
C8_AppendsTrimmedText == [][\A id \in Ids : C8_Step(id)]_vars

\* C9: all Reports of the collection have pairwise distinct ids.
C9_DistinctIds ==
  \A i, j \in 1..Len(reports) : i # j => reports[i].id # reports[j].id

\* The position of a report: <<>> when it has none
PositionOf(r) ==
  IF "coords" \in DOMAIN r THEN r.coords ELSE <<r.lat, r.lng>>

\* C10: every Report of a collection has a defined position with latitude
\* in [-90, 90] and longitude in [-180, 180].
C10_PositionsInRange ==
  \A k \in 1..Len(reports) :
    LET pos == PositionOf(reports[k])
    IN  Len(pos) = 2 /\ InRange(pos[1], pos[2])

\* C11: every Report is created with the initial status "New", whatever the
\* draft held; with no authority action in these components, every Report
\* of the collection has that status.
C11_CreatedWithInitialStatus ==
  \A k \in 1..Len(reports) :
    "status" \in DOMAIN reports[k] => reports[k].status = "New"

\* C12: a successful submission puts the new Report at index 0 and keeps
\* the earlier Reports behind it in their order.
C12_NewestFirst ==
  [][Len(reports') = Len(reports) + 1 => Tail(reports') = reports]_vars

\* The calls in flight that resolve the position of a submission
IsSubmission(call) == call.op \in {"submitReport", "handleSubmit"}

\* C13: no two position resolutions are in flight for the same draft.
C13_SingleFlight ==
  \A i, j \in 1..Len(pending) :
    (i # j /\ IsSubmission(pending[i]) /\ IsSubmission(pending[j]))
      => pending[i].draft # pending[j].draft

\* The answer to call i arrives after a submission has reset the form.
Stale(i) == pending[i].generation < generation

\* C14: the answer to a geocoding or geolocation request that was issued
\* before the form was reset by a successful submission is discarded: it
\* changes neither the form, nor the preview marker, nor the map focus.
C14_StaleResponseDiscarded ==
  [][\A i \in 1..Len(pending), data \in GeocodeResults, pos \in GpsPositions :
       (/\ Stale(i)
        /\ \/ previewed_SampleRunBtn(i, data)
           \/ geocoded_SampleRunBtn(i, data)
           \/ positioned_AppForm(i, pos)
           \/ searched_AppForm(i, data))
         => /\ draft' = draft
            /\ previewCoords' = previewCoords
            /\ MapFocus' = MapFocus]_vars

\* Recording sessions started or being started: calls of startRecording
\* waiting for the microphone, plus the session `recording` stands for.
Sessions ==
  Cardinality({i \in 1..Len(pending) : pending[i].op = "startRecording"})
    + (IF recording THEN 1 ELSE 0)

\* C15: at most one audio recording session exists at any time: a start
\* request made while a session is active, or while an earlier start request
\* still waits for the microphone permission, starts nothing.
C15_OneRecordingSession == Sessions <= 1

\* C16: when the device answers a position request, the position of the form
\* becomes the returned coordinates and, where the form has a label, the label
\* becomes "Current Location"; when the device refuses or has no position, the
\* user is told, the form stays as it was and no report is created.
C16_Geolocation ==
  [][\A i \in 1..Len(pending) :
       /\ \A pos \in GpsPositions :
            /\ positioned_AppForm(i, pos)
                 => draft'.coords = pos /\ draft'.location = CurrentLocation
            /\ positioned_App(i, pos) => draft'.location = pos
       /\ (positionFailed_AppForm(i) \/ positionFailed_App(i))
            => /\ alertMsg' # "none"
               /\ draft' = draft
               /\ reports' = reports]_vars

\* C17: right after a submission that created a report the map is centred on
\* the position of that report; after a submission that created none the
\* centre of the map is what it was.
C17_FocusFollowsSubmission ==
  [][/\ (handleSubmit_AppForm /\ generation' # generation)
          => MapFocus' = PositionOf(reports'[Len(reports')])
     /\ (handleSubmit_AppForm /\ generation' = generation)
          => MapFocus' = MapFocus
     /\ \A i \in 1..Len(pending), data \in GeocodeResults :
          /\ (geocoded_SampleRunBtn(i, data) /\ generation' # generation)
               => MapFocus' = PositionOf(reports'[1])
          /\ (geocoded_SampleRunBtn(i, data) /\ generation' = generation)
               => MapFocus' = MapFocus]_vars

\* The fields of a form that a submission is to clear; the category (and the
\* authority chosen with it) may keep its value.
ClearedFields ==
  {"title", "description", "address", "location", "locationInput",
   "locationName", "coords", "lat", "lng", "photo", "photoPreview",
   "photoFile", "file", "images", "audio", "audioBlob", "urgency"}

Cleared(d) ==
  \A f \in DOMAIN d \cap ClearedFields : d[f] = InitDraft(variant)[f]

\* C18: a submission that created a report leaves title, description,
\* address or location text, position, photo, audio and urgency of the form
\* at their initial values, and a submission of a form whose fields are at
\* those values creates no report.
C18_FormClearedAfterSubmission ==
  [][/\ generation' # generation => Cleared(draft')
     /\ (/\ Cleared(draft)
         /\ \/ submitReport_App
            \/ submitReport_App002
            \/ submitReport_AppLocName
            \/ handleSubmit_Reporter) => generation' = generation]_vars

\* C19: where a photo is required, a submission without one creates no report
\* and changes neither the form nor the map focus, and a submission of a form
\* with a photo (the same form as one refused before, photo apart, included)
\* adds exactly one report and centres the map on the submitted coordinates.
C19_RejectionDoesNotBlock ==
  [][/\ (submitReport_App002 /\ draft.photoPreview = 0)
          => reports' = reports /\ draft' = draft /\ MapFocus' = MapFocus
     /\ (submitReport_App002 /\ draft.photoPreview # 0)
          => /\ Len(reports') = Len(reports) + 1
             /\ Tail(reports') = reports
             /\ PositionOf(reports'[1]) = draft.location
             /\ MapFocus' = draft.location
     /\ (addReport_SampleRun003 /\ draft.photoPreview = 0)
          => reports' = reports /\ draft' = draft /\ MapFocus' = MapFocus
     /\ (/\ addReport_SampleRun003
         /\ draft.photoPreview # 0
         /\ ValidNumbers_SampleRun003(draft))
          => /\ Len(reports') = Len(reports) + 1
             /\ Tail(reports') = reports
             /\ PositionOf(reports'[1]) = <<parseFloat(draft.lat), parseFloat(draft.lng)>>
             /\ MapFocus' = <<parseFloat(draft.lat), parseFloat(draft.lng)>>]_vars

\* App002 refused the form for want of a photo before any report existed;
\* the photo was then attached, the one input made, and the form accepted.
C19_Witness ==
  /\ variant = "App002"
  /\ rejectedAt = 0
  /\ generation = 1
  /\ edits = 1
  /\ Len(reports) = 1
  /\ MapFocus = PositionOf(reports[1])

\* C20: the votes of every report are a natural number, and no step lowers
\* the votes of a report, whatever submissions are waiting for their
\* geocoding answer.  Reports are matched from the oldest end of the
\* collection, where a prepended report moves none.
C20_VotesNeverDecrease ==
  [][/\ \A k \in 1..Len(reports') : reports'[k].votes \in Nat
     /\ \A j \in 0..(Len(reports) - 1) :
          /\ j < Len(reports')
          /\ reports'[Len(reports') - j].votes >= reports[Len(reports) - j].votes]_vars

IsPrefix(a, b) == Len(a) <= Len(b) /\ SubSeq(b, 1, Len(a)) = a

\* C21: comments are only ever appended: at every step the comments a report
\* had before the step are a prefix of those it has after it, also when the
\* comment is added while a submission waits for its geocoding answer.
\* Reports are matched from the oldest end of the collection.
C21_CommentsAppendOnly ==
  [][\A j \in 0..(Len(reports) - 1) :
       /\ j < Len(reports')
       /\ IsPrefix(reports[Len(reports) - j].comments,
                   reports'[Len(reports') - j].comments)]_vars

\* C22: a report that is in the collection stays in it: at every step each
\* report of the collection is still there afterwards, at the same distance
\* from the oldest end, also when the step is the completion of a submission
\* that had started before an earlier one completed.
C22_ReportsNeverRemoved ==
  [][\A j \in 0..(Len(reports) - 1) :
       /\ j < Len(reports')
       /\ reports'[Len(reports') - j].id = reports[Len(reports) - j].id]_vars

StatusRoute == "PATCH /admin/complaints/:id/status"
AssignRoute == "PATCH /admin/complaints/:id/assign"

\* C23: a status request whose status is not pending, in-progress or
\* resolved (a request without a status included) changes no persisted
\* complaint, whether the id exists or not, and the admin who sent it is
\* answered 400 "Invalid status".
C23_InvalidStatusRejected ==
  [][\A caller \in Callers, id \in RequestIds, status \in StatusInputs \ allowed :
       patch_status(caller, id, status)
         => /\ db' = db
            /\ Guarded(caller) = 0
                 => res'.status = 400 /\ res'.message = "Invalid status"]_vars

\* An admin's request with a status outside the set was refused while a
\* complaint was persisted.
C23_Witness ==
  /\ res.route = StatusRoute
  /\ res.caller = "admin"
  /\ res.status = 400
  /\ Len(db) >= 1

\* Document k of the collection is as before but for `path`, which is
\* `value`, and updatedAt, which is the time of the request; every other
\* document is as before.
ReplacedOnly(k, path, value) ==
  /\ Len(db') = Len(db)
  /\ \A j \in 1..Len(db) : j # k => db'[j] = db[j]
  /\ DOMAIN db'[k] = DOMAIN db[k] \cup {path, "updatedAt"}
  /\ db'[k][path] = value
  /\ db'[k].updatedAt = now
  /\ \A f \in DOMAIN db[k] \ {path, "updatedAt"} : db'[k][f] = db[k][f]

\* C24: an admin's status or assignment request for an id that matches no
\* complaint is answered 404 "not found" and changes no document; for an id
\* that matches one it replaces the status (the assignee) of that complaint,
\* sets its updatedAt to the time of the request and changes nothing else.
C24_UpdateTargetsOneField ==
  [][\A id \in RequestIds :
       /\ patch_status("admin", id, "resolved")
            => IF IndexOf(db, id) = 0
                 THEN res'.status = 404 /\ db' = db
                 ELSE ReplacedOnly(IndexOf(db, id), "status", "resolved")
       /\ patch_assign("admin", id, "roads")
            => IF IndexOf(db, id) = 0
                 THEN res'.status = 404 /\ db' = db
                 ELSE ReplacedOnly(IndexOf(db, id), "assignedTo", "roads")]_vars

AdminRoutes ==
  {"GET /admin/test", "GET /admin/complaints", StatusRoute, AssignRoute,
   "GET /admin/analytics"}

\* C25: a route of the admin router answers with success only a caller that
\* is authenticated and has the admin role.
C25_AdminRoutesGuarded ==
  (res.route \in AdminRoutes /\ res.status \in 200..299) => res.caller = "admin"

\* C26: the status of every persisted complaint, the one the schema gives a
\* new complaint included, is pending, in-progress or resolved.
C26_StatusInAllowedSet ==
  \A k \in 1..Len(db) : db[k].status \in allowed

\* The sum of the counts of an aggregation
RECURSIVE SumCounts(_)
SumCounts(groups) ==
  IF DOMAIN groups = {} THEN 0
  ELSE LET g == CHOOSE x \in DOMAIN groups : TRUE
       IN  groups[g] + SumCounts([x \in DOMAIN groups \ {g} |-> groups[x]])

\* C29: in every answer of the analytics route the counts by status add up
\* to the total and so do the counts by category, whatever requests create
\* complaints or change their status while the analytics request runs.
C29_AnalyticsAddUp ==
  (res.route = "GET /admin/analytics" /\ res.status = 200)
    => /\ SumCounts(res.body.byStatus) = res.body.total
       /\ SumCounts(res.body.byCategory) = res.body.total

\* Every field of the form but those of `own` has the value it had when the
\* step began.
OnlyFieldsChange(own) ==
  /\ DOMAIN draft' = DOMAIN draft
  /\ \A f \in DOMAIN draft \ own : draft'[f] = draft[f]

\* C27: the completion of an asynchronous operation on the form changes only
\* its own fields: stopping a recording changes the audio field alone, and
\* the values the other fields have when the callback runs, those typed
\* while the recording ran included, are kept.
C27_CompletionKeepsOtherFields ==
  [][/\ stopRecording_AppForm => OnlyFieldsChange({"audio"})
     /\ stopRecording_App => OnlyFieldsChange({"audioBlob"})]_vars

\* C28: a complaint added to the list locally is still in the list once the
\* first fetch from the backend has answered, whether it was added before
\* or after the answer.
C28_LocalComplaintSurvivesFetch ==
  [][\A i \in 1..Len(pending), ok \in BOOLEAN :
       fetchComplaints(i, ok, reports')
         => \A k \in 1..Len(reports) :
              \E j \in 1..Len(reports') : reports'[j] = reports[k]]_vars

\* The step keeps the length and the order of the collection and changes at
\* most one report, one whose id is `id`, and of it only the field `field`.
TouchesOnly(id, field) ==
  /\ Len(reports') = Len(reports)
  /\ Cardinality({k \in 1..Len(reports) : reports'[k] # reports[k]}) <= 1
  /\ \A k \in 1..Len(reports) :
       reports'[k] # reports[k]
         => /\ reports[k].id = id
            /\ DOMAIN reports'[k] = DOMAIN reports[k]
            /\ \A f \in DOMAIN reports[k] \ {field} : reports'[k][f] = reports[k][f]

\* C30: upvote(id) and addComment(id) leave the length and the order of the
\* collection alone and change one report at most, the one with that id, of
\* which upvote changes the votes alone and addComment the comments alone.
C30_SocialActionsTouchOneReport ==
  [][\A id \in Ids :
       /\ upvote(id) => TouchesOnly(id, "votes")
       /\ (addComment(id) \/ addComment_InitialCode(id))
            => TouchesOnly(id, "comments")]_vars

==========================================================================
